---- MODULE Spec2Model ----
(***************************************************************************)
(* Verification model of the ToneBridge frontend data pipeline:            *)
(*   - TranscriptStorageManager (src/src/utils/index.ts)                   *)
(*   - ApiUtils.request         (src/src/utils/index.ts)                   *)
(*   - AudioRecorder            (src/src/components/audio/AudioRecorder.tsx)*)
(* Each component has its own specification (SpecStore, SpecApi, SpecRec); *)
(* the variables of the other components stay unchanged in it.             *)
(***************************************************************************)
EXTENDS Integers, Sequences, FiniteSets, TLC

VARIABLES
    \* ---- persistence substrate and TranscriptStorageManager
    localStorage,   \* key -> [present, value]; the browser's localStorage under the 'tonebridge_' prefix
    lastCall,       \* history: the last TranscriptStorageManager call, its input and its return value
    \* ---- one ApiUtils.request call
    pc,             \* "idle", "fetching" (awaiting fetch), "waiting" (backoff), "returned", "threw"
    attempt,        \* the loop variable of the retry loop
    timeoutId,      \* the timeout timer: "none", "pending", "cleared", "fired"
    signalAborted,  \* controller.signal.aborted
    lastError,      \* the last caught error message (NoMessage for null)
    outcome,        \* what the call returned or threw
    replies,        \* history: what each settled attempt observed
    delays,         \* history: the backoff waits, [after |-> attempt, ms |-> delay]
    fetchCount,     \* history: number of fetch calls made
    \* ---- the AudioRecorder component and the platform under it
    recordingState,        \* React state: [isRecording, duration] (error only feeds the rendered text)
    mediaRecorderRef,      \* session whose MediaRecorder the ref holds, 0 for null
    audioChunksRef,        \* the chunk buffer, as the set of sessions whose recorder put a chunk into it
    elapsed,               \* Date.now() - startTimeRef.current, in periods of the duration timer
    durationIntervalRef,   \* session whose duration interval the ref holds, 0 for null
    streamRef,             \* session whose MediaStream the ref holds, 0 for null
    mounted,               \* the component is mounted
    sessions,              \* per startRecording call: platform objects and what was reported to the caller
    nextSession,           \* number of the next startRecording call
    \* ---- preferences: the daily bucket, the legacy 'settings' key and the settings UI
    started,        \* Home is mounted (its first render and init effect have run)
    homeSettings,   \* Home's `settings` state
    panelSettings,  \* SettingsPanel's `settings` state
    lastPref,       \* history: the last preference-storage call and what it returned
    \* ---- the Home page: the midnight timer it sets and its capture handler
    midnightTimers,        \* pending timers set by DailyStorageManager.scheduleMidnightReset
    isProcessing,          \* Home's `isProcessing` state
    transcriptionSegments, \* Home's `transcriptionSegments` state
    handler,               \* position of handleRecordingComplete: "idle", "probing", "posting"
    captures,              \* recordings handed to handleRecordingComplete so far
    lastHandled            \* history: the last handleRecordingComplete run

storeVars == <<localStorage, lastCall>>

apiVars == <<pc, attempt, timeoutId, signalAborted, lastError, outcome, replies, delays, fetchCount>>

recVars == <<recordingState, mediaRecorderRef, audioChunksRef, elapsed, durationIntervalRef,
             streamRef, mounted, sessions, nextSession>>

prefVars == <<started, homeSettings, panelSettings, lastPref>>

homeVars == <<midnightTimers, isProcessing, transcriptionSegments, handler, captures, lastHandled>>

vars == <<storeVars, apiVars, recVars, prefVars, homeVars>>

(***************************************************************************)
(* Bounds and scaled program constants                                     *)
(***************************************************************************)
\* TranscriptStorageManager.MAX_TRANSCRIPTS (1000 in the source), scaled down
MAX_TRANSCRIPTS == 3
\* TranscriptStorageManager.MAX_STORAGE_SIZE (5 * 1024 * 1024 in the source), scaled down
MAX_STORAGE_SIZE == 200
\* longest batch handed to addTranscripts
MaxBatch == 2
\* longest sequence handed to saveTranscripts / importTranscripts
MaxSaveLen == 4

(***************************************************************************)
(* JSON and Date conversions                                               *)
(***************************************************************************)
\* In memory a segment's timestamp is a Date: "D0" (the epoch), "D1" (a
\* capture time) or "InvalidDate".  In JSON text it is an ISO string ("iso0",
\* "iso1"), the literal null ("null"), or - in imported text only - a string
\* that is no date ("garbage").

\* Date.prototype.toJSON as used by JSON.stringify: an invalid Date becomes null
DateToJSON(d) ==
    CASE d = "D0" -> "iso0"
      [] d = "D1" -> "iso1"
      [] OTHER    -> "null"

\* new Date(x) for a value x parsed from JSON: new Date(null) is the epoch
NewDate(j) ==
    CASE j = "iso0" -> "D0"
      [] j = "iso1" -> "D1"
      [] j = "null" -> "D0"
      [] OTHER      -> "InvalidDate"

\* bytes of a timestamp in JSON text: a quoted 24-char ISO string, or null
TimestampBytes(j) == IF j = "null" THEN 4 ELSE 26

\* JSON.stringify of one in-memory segment (bytes: size of the object's text
\* without the timestamp value)
StringifySegment(seg) ==
    [id |-> seg.id, bytes |-> seg.bytes, timestamp |-> DateToJSON(seg.timestamp)]

\* JSON.stringify(transcripts) / JSON.parse of it, element-wise
Stringify(transcripts) ==
    [i \in 1..Len(transcripts) |-> StringifySegment(transcripts[i])]

RECURSIVE SumBytes(_)
SumBytes(json) ==
    IF Len(json) = 0 THEN 0
    ELSE Head(json).bytes + TimestampBytes(Head(json).timestamp) + SumBytes(Tail(json))

\* new Blob([JSON.stringify(transcripts)]).size: brackets, elements, commas
BlobSize(transcripts) ==
    LET json == Stringify(transcripts)
    IN  2 + SumBytes(json) + (IF Len(json) > 0 THEN Len(json) - 1 ELSE 0)

\* Array.prototype.slice(-n)
SliceLast(s, n) == IF Len(s) <= n THEN s ELSE SubSeq(s, Len(s) - n + 1, Len(s))

(***************************************************************************)
(* StorageUtils                                                            *)
(***************************************************************************)
TRANSCRIPTS_KEY == "transcripts"
\* DailyStorageManager.STORAGE_KEY
STORAGE_KEY == "daily_data"
\* the key of StorageUtils.getSettings / saveSettings
SETTINGS_KEY == "settings"

StorageKeys == {TRANSCRIPTS_KEY, STORAGE_KEY, SETTINGS_KEY}

\* a property that is missing from a parsed object
Undefined == "undefined"

\* UserSettings, reduced to theme, fontSize and displayMode (its id)
Settings(theme, fontSize, displayMode) ==
    [theme |-> theme, fontSize |-> fontSize, displayMode |-> displayMode]

\* the object {} (what the spread of a number or of an empty object gives)
EmptyObject == Settings(Undefined, Undefined, Undefined)

\* Times are kept relative to the present.  A date key is Today or
\* EarlierDay; a Date.now() reading is Now or EarlierInstant.  When time
\* passes, every Now in the state becomes EarlierInstant, and when the date
\* changes every Today becomes EarlierDay as well.
Today == "today"
EarlierDay == "earlier day"
Now == "now"
EarlierInstant == "earlier"

\* DailyStorageData: date (EarlierDay also when the property is missing),
\* settings (hasSettings is FALSE when the property is missing), transcripts,
\* and of the metadata lastUpdated
Bucket(date, hasSettings, settings, transcripts, lastUpdated) ==
    [date |-> date, hasSettings |-> hasSettings, settings |-> settings,
     transcripts |-> transcripts, lastUpdated |-> lastUpdated]

NoBucket == Bucket(EarlierDay, FALSE, EmptyObject, <<>>, EarlierInstant)

\* the value an entry holds where nothing is stored, by key
EmptyValue(key) ==
    CASE key = STORAGE_KEY  -> NoBucket
      [] key = SETTINGS_KEY -> EmptyObject
      [] OTHER              -> <<>>

\* One localStorage entry.  shape: "ok" (the text parses to an item whose
\* value is `value`), "unparseable" (JSON.parse throws), and for the
\* transcripts key "notArray" (value is an object), "nullItem" (an array
\* holding null), "numbers" (an array holding a number).  timestamp: the
\* item's timestamp, Date.now() at StorageUtils.set.
Entry(present, shape, value, timestamp) ==
    [present |-> present, shape |-> shape, value |-> value, timestamp |-> timestamp]

Absent == Entry(FALSE, "ok", <<>>, EarlierInstant)

AbsentAt(key) == Entry(FALSE, "ok", EmptyValue(key), EarlierInstant)

\* StorageUtils.set(key, value): localStorage.setItem(prefix + key, JSON.stringify(item))
StorageSet(ls, key, value) ==
    [ls EXCEPT ![key] = Entry(TRUE, "ok", value, Now)]

\* StorageUtils.remove(key)
StorageRemove(ls, key) == [ls EXCEPT ![key] = AbsentAt(key)]

\* StorageUtils.get(key): null when nothing is stored or JSON.parse throws,
\* else parsed.value (no item of the application carries expiresAt)
StorageGet(ls, key) ==
    IF ls[key].present /\ ls[key].shape # "unparseable"
    THEN [found |-> TRUE, value |-> ls[key].value]
    ELSE [found |-> FALSE, value |-> EmptyValue(key)]

(***************************************************************************)
(* TranscriptStorageManager                                                *)
(***************************************************************************)
\* what stored.map(...) makes of an array element that is a number: the
\* spread of a number has no property, and new Date(undefined) is invalid
SegmentOfNumber == [id |-> 0, bytes |-> 0, timestamp |-> "InvalidDate"]

\* getTranscripts(): the stored array with every timestamp turned into a
\* Date; [] when nothing is stored, and when the text does not parse or
\* stored.map(...) throws (the catch)
getTranscripts(ls) ==
    IF ~StorageGet(ls, TRANSCRIPTS_KEY).found THEN <<>>
    ELSE IF ls[TRANSCRIPTS_KEY].shape \in {"notArray", "nullItem"} THEN <<>>
    ELSE IF ls[TRANSCRIPTS_KEY].shape = "numbers" THEN <<SegmentOfNumber>>
    ELSE LET stored == ls[TRANSCRIPTS_KEY].value
         IN  [i \in 1..Len(stored) |->
                [id |-> stored[i].id, bytes |-> stored[i].bytes,
                 timestamp |-> NewDate(stored[i].timestamp)]]

\* mutant of reduceTranscriptsToFit: drops at most one segment
reduceTranscriptsToFit_DropOnce(transcripts) ==
    IF Len(transcripts) > 0 /\ BlobSize(transcripts) > MAX_STORAGE_SIZE
    THEN Tail(transcripts) ELSE transcripts

\* mutant of reduceTranscriptsToFit: drops from the newest end
RECURSIVE reduceTranscriptsToFit_DropNewest(_)
reduceTranscriptsToFit_DropNewest(transcripts) ==
    IF Len(transcripts) = 0 THEN transcripts
    ELSE IF BlobSize(transcripts) <= MAX_STORAGE_SIZE THEN transcripts
    ELSE reduceTranscriptsToFit_DropNewest(SubSeq(transcripts, 1, Len(transcripts) - 1))

\* reduceTranscriptsToFit: while non-empty and too large, slice(1)
RECURSIVE reduceTranscriptsToFit(_)
reduceTranscriptsToFit(transcripts) ==
    IF Len(transcripts) = 0 THEN transcripts
    ELSE IF BlobSize(transcripts) <= MAX_STORAGE_SIZE THEN transcripts
    ELSE reduceTranscriptsToFit(Tail(transcripts))

\* saveTranscripts(transcripts): the substrate after the call.
\* localStorage.setItem is taken to succeed (the substrate's own quota is not
\* modelled), so the catch branch is not entered.
saveTranscripts(ls, transcripts) ==
    LET limitedTranscripts == SliceLast(transcripts, MAX_TRANSCRIPTS)
        storageSize == BlobSize(limitedTranscripts)
    IN  IF storageSize > MAX_STORAGE_SIZE
        THEN StorageSet(ls, TRANSCRIPTS_KEY, Stringify(reduceTranscriptsToFit(limitedTranscripts)))
        ELSE StorageSet(ls, TRANSCRIPTS_KEY, Stringify(limitedTranscripts))

\* segments the application hands to the store (ids, sizes, capture times)
NewSegments ==
    { [id |-> 1, bytes |-> 40,  timestamp |-> "D1"],
      [id |-> 2, bytes |-> 120, timestamp |-> "InvalidDate"] }

\* elements of an imported JSON array
ImportedSegments ==
    { [id |-> 1, bytes |-> 40,  timestamp |-> "iso1"],
      [id |-> 2, bytes |-> 120, timestamp |-> "garbage"] }

SeqsUpTo(S, n) == UNION { [1..k -> S] : k \in 0..n }

\* importTranscripts inputs: text that does not parse, text that parses to a
\* non-array, an array holding a null element, an array of segment objects
ImportInputs ==
    { [kind |-> k, items |-> <<>>] : k \in {"unparseable", "object", "nullItem"} }
    \cup { [kind |-> "array", items |-> it] : it \in SeqsUpTo(ImportedSegments, MaxSaveLen) }

Call(op, before, input, merged, ret) ==
    [op |-> op, before |-> before, input |-> input, merged |-> merged, ret |-> ret]

\* TranscriptStorageManager.saveTranscripts called directly (Home's save
\* effect, deleteSegment) with an in-memory list
SaveTranscripts ==
    /\ UNCHANGED <<apiVars, recVars, prefVars, homeVars>>
    /\ \E transcripts \in SeqsUpTo(NewSegments, MaxSaveLen) :
            /\ localStorage' = saveTranscripts(localStorage, transcripts)
            /\ lastCall' = Call("saveTranscripts", localStorage[TRANSCRIPTS_KEY].value,
                                transcripts, transcripts, TRUE)

\* TranscriptStorageManager.addTranscript(transcript)
AddTranscript ==
    /\ UNCHANGED <<apiVars, recVars, prefVars, homeVars>>
    /\ \E transcript \in NewSegments :
            LET transcripts == Append(getTranscripts(localStorage), transcript)
            IN  /\ localStorage' = saveTranscripts(localStorage, transcripts)
                /\ lastCall' = Call("addTranscript", localStorage[TRANSCRIPTS_KEY].value,
                                    <<transcript>>, transcripts, TRUE)

\* TranscriptStorageManager.addTranscripts(newTranscripts)
AddTranscripts ==
    /\ UNCHANGED <<apiVars, recVars, prefVars, homeVars>>
    /\ \E newTranscripts \in SeqsUpTo(NewSegments, MaxBatch) :
            LET transcripts == getTranscripts(localStorage) \o newTranscripts
            IN  /\ localStorage' = saveTranscripts(localStorage, transcripts)
                /\ lastCall' = Call("addTranscripts", localStorage[TRANSCRIPTS_KEY].value,
                                    newTranscripts, transcripts, TRUE)

\* exportTranscripts(): JSON.stringify(getTranscripts(), null, 2), as the
\* array JSON.parse gives back for it
exportTranscripts(ls) == [kind |-> "array", items |-> Stringify(getTranscripts(ls))]

\* importTranscripts(jsonData): the substrate after the call, the validated
\* list and the return value.  JSON.parse throwing, Array.isArray failing and
\* segment.timestamp throwing on a null element are all caught: false.
importTranscripts(ls, jsonData) ==
    IF jsonData.kind # "array"
    THEN [ls |-> ls, validated |-> <<>>, ret |-> FALSE]
    ELSE LET validatedTranscripts ==
                 [i \in 1..Len(jsonData.items) |->
                    [id |-> jsonData.items[i].id, bytes |-> jsonData.items[i].bytes,
                     timestamp |-> NewDate(jsonData.items[i].timestamp)]]
         IN  [ls |-> saveTranscripts(ls, validatedTranscripts),
              validated |-> validatedTranscripts, ret |-> TRUE]

\* TranscriptStorageManager.importTranscripts(jsonData)
ImportTranscripts ==
    /\ UNCHANGED <<apiVars, recVars, prefVars, homeVars>>
    /\ \E jsonData \in ImportInputs :
            LET r == importTranscripts(localStorage, jsonData)
            IN  /\ localStorage' = r.ls
                /\ lastCall' = Call("importTranscripts", localStorage[TRANSCRIPTS_KEY].value,
                                    jsonData, r.validated, r.ret)

\* importTranscripts(exportTranscripts()): an exported text is imported back
ImportExported ==
    /\ UNCHANGED <<apiVars, recVars, prefVars, homeVars>>
    /\ LET jsonData == exportTranscripts(localStorage)
           r == importTranscripts(localStorage, jsonData)
       IN  /\ localStorage' = r.ls
           /\ lastCall' = Call("importExported", localStorage[TRANSCRIPTS_KEY].value,
                               jsonData, r.validated, r.ret)

\* TranscriptStorageManager.clearTranscripts()
ClearTranscripts ==
    /\ localStorage[TRANSCRIPTS_KEY].present
    /\ localStorage' = StorageRemove(localStorage, TRANSCRIPTS_KEY)
    /\ lastCall' = Call("clearTranscripts", localStorage[TRANSCRIPTS_KEY].value,
                        <<>>, <<>>, TRUE)
    /\ UNCHANGED <<apiVars, recVars, prefVars, homeVars>>

InitStore ==
    /\ localStorage = [k \in StorageKeys |-> AbsentAt(k)]
    /\ lastCall = Call("none", <<>>, <<>>, <<>>, TRUE)

NextStore ==
    \/ SaveTranscripts
    \/ AddTranscript
    \/ AddTranscripts
    \/ ImportTranscripts
    \/ ImportExported
    \/ ClearTranscripts

(***************************************************************************)
(* Claims about the transcript store                                       *)
(***************************************************************************)
\* the persisted segment sequence, as stored (JSON form)
Persisted == localStorage[TRANSCRIPTS_KEY].value

\* serialized size of the persisted sequence: its JSON text in bytes
PersistedBytes ==
    2 + SumBytes(Persisted) + (IF Len(Persisted) > 0 THEN Len(Persisted) - 1 ELSE 0)

WritingCalls == {"saveTranscripts", "addTranscript", "addTranscripts", "importTranscripts",
                 "importExported"}

IsSuffix(s, t) == Len(s) <= Len(t) /\ s = SubSeq(t, Len(t) - Len(s) + 1, Len(t))

Suffixes(t) == { SubSeq(t, k, Len(t)) : k \in 1..(Len(t) + 1) }

\* the longest suffix of t that fits the byte budget (the empty one if none fits)
LongestFittingSuffix(t) ==
    LET fitting == { s \in Suffixes(t) : BlobSize(s) <= MAX_STORAGE_SIZE }
    IN  IF fitting = {} THEN <<>>
        ELSE CHOOSE s \in fitting : \A u \in fitting : Len(u) <= Len(s)

\* C2: after an append the persisted sequence is a suffix of the merged
\* sequence (stored segments as read back, then the new ones), namely the
\* longest suffix of the count-capped merged sequence that fits the byte budget.
C2_OldestFirstEviction ==
    lastCall.op \in {"addTranscript", "addTranscripts"} =>
        LET stored == [i \in 1..Len(lastCall.before) |->
                         [id |-> lastCall.before[i].id, bytes |-> lastCall.before[i].bytes,
                          timestamp |-> NewDate(lastCall.before[i].timestamp)]]
            merged == stored \o lastCall.input
            capped == SliceLast(merged, MAX_TRANSCRIPTS)
        IN  /\ IsSuffix(Persisted, Stringify(merged))
            /\ Persisted = Stringify(LongestFittingSuffix(capped))

\* C2 witness: an append where the count cap dropped a segment and the byte
\* budget then dropped more, leaving a non-empty proper suffix
C2_Witness ==
    /\ lastCall.op = "addTranscripts"
    /\ Len(lastCall.merged) > MAX_TRANSCRIPTS
    /\ Len(Persisted) > 0
    /\ Len(Persisted) < MAX_TRANSCRIPTS
    /\ Len(lastCall.before) > 0

\* size of a JSON array text in bytes
JsonSize(json) == 2 + SumBytes(json) + (IF Len(json) > 0 THEN Len(json) - 1 ELSE 0)

\* C30: importTranscripts returns false and leaves the persisted sequence
\* unchanged when the text does not parse or is not an array; for every other
\* text it returns true and the persisted sequence is the imported one cut to
\* the count and byte limits; importing an exported text leaves the stored
\* segments as they were.
C30_ImportAllOrNothing ==
    /\ lastCall.op = "importTranscripts" =>
          IF lastCall.input.kind \in {"unparseable", "object"}
          THEN /\ ~lastCall.ret
               /\ Persisted = lastCall.before
          ELSE /\ lastCall.ret
               /\ IsSuffix(Persisted, lastCall.input.items)
               /\ Len(Persisted) <= MAX_TRANSCRIPTS
               /\ PersistedBytes <= MAX_STORAGE_SIZE
               /\ ( /\ Len(lastCall.input.items) <= MAX_TRANSCRIPTS
                    /\ JsonSize(lastCall.input.items) <= MAX_STORAGE_SIZE )
                  => Persisted = lastCall.input.items
    /\ lastCall.op = "importExported" =>
          /\ lastCall.ret
          /\ Persisted = lastCall.before

(***************************************************************************)
(* ApiUtils.request                                                        *)
(***************************************************************************)
\* ApiUtils.maxRetries
maxRetries == 3
\* ApiUtils.retryDelay (ms)
retryDelay == 1000

\* An error message is [head, status, text]: a fixed head, and for the
\* generic `Server error (${status}): ${errorText}` the status and body text.
Message(head, status, text) == [head |-> head, status |-> status, text |-> text]

NoMessage == Message("", 0, "")

\* bodies a server sends with an error status (response.text())
ErrorTexts == {"Bad request", "upstream request aborted"}

\* String.prototype.includes on the strings of the model
StringIncludes(str, needle) ==
    <<str, needle>> \in
        { <<"Network error - check your connection and try again", "Network error">>,
          <<"API endpoint not found - please check the server configuration", "API endpoint not found">>,
          <<"The user aborted a request.", "abort">>,
          <<"Failed to fetch", "Failed to fetch">>,
          <<"upstream request aborted", "abort">> }

Includes(msg, needle) ==
    StringIncludes(msg.head, needle) \/ StringIncludes(msg.text, needle)

\* the Error thrown for a response with !response.ok
HttpError(status, errorText) ==
    CASE status = 0   -> Message("Network error - check your connection and try again", 0, "")
      [] status = 404 -> Message("API endpoint not found - please check the server configuration", 0, "")
      [] status = 413 -> Message("Audio file too large - please record a shorter message", 0, "")
      [] status = 500 -> Message("Server error - please try again later", 0, "")
      [] status = 503 -> Message("Service temporarily unavailable - please try again later", 0, "")
      [] OTHER        -> Message("Server error (status): ", status, errorText)

\* mutant of IsNonRetryable: 'API endpoint not found' left out of the list
IsNonRetryable_Without404(msg) ==
    \/ Includes(msg, "abort")
    \/ Includes(msg, "signal is aborted")
    \/ Includes(msg, "Network error")

\* "Don't retry on certain errors": the condition of the break
IsNonRetryable(msg) ==
    \/ Includes(msg, "abort")
    \/ Includes(msg, "signal is aborted")
    \/ Includes(msg, "Network error")
    \/ Includes(msg, "API endpoint not found")

\* mutant of BackoffDelay: a constant delay
BackoffDelay_Constant(n) == retryDelay

\* const delay = this.retryDelay * attempt
BackoffDelay(n) == retryDelay * n

\* the user-friendly message thrown after the loop
FriendlyMessage(err) ==
    IF err = NoMessage THEN Message("API request failed", 0, "")
    ELSE IF Includes(err, "Failed to fetch")
         THEN Message("Cannot connect to server. Please check your internet connection and try again.", 0, "")
    ELSE IF Includes(err, "abort") \/ Includes(err, "signal is aborted")
         THEN Message("Request timed out. The server is taking longer than expected to process your audio. Please try again.", 0, "")
    ELSE IF Includes(err, "Network error")
         THEN Message("Network connection issue. Please check your connection and try again.", 0, "")
    ELSE err

\* mutant of ClearTimeout: the timer is left as it is
ClearTimeout_Noop(t) == t

\* clearTimeout(timeoutId): a pending timer is cancelled, a fired one stays fired
ClearTimeout(t) == IF t = "pending" THEN "cleared" ELSE t

\* what one attempt can observe
Reply(kind, status, text, json, success) ==
    [kind |-> kind, status |-> status, text |-> text, json |-> json, success |-> success]

\* HTTP statuses the remote answers with (a CORS-mode fetch never yields status 0)
ErrorStatuses == {400, 401, 403, 404, 413, 429, 500, 502, 503}

Responses ==
    { Reply("response", 200, "", "ok", b) : b \in BOOLEAN }
    \cup { Reply("response", 200, "", "bad", FALSE) }
    \cup { Reply("response", st, "", "none", FALSE) : st \in {404, 413, 500, 503} }
    \cup { Reply("response", st, t, "none", FALSE) :
             st \in ErrorStatuses \ {404, 413, 500, 503}, t \in ErrorTexts }

\* messages of the TypeError a failed fetch rejects with
NetworkFailures == {"Failed to fetch", "Load failed"}

\* the catch block and what follows it: break and throw, wait, or fall out of
\* the loop after the last attempt and throw
Catch(err, timer) ==
    /\ lastError' = err
    /\ IF IsNonRetryable(err) \/ attempt >= maxRetries
       THEN /\ pc' = "threw"
            /\ timeoutId' = ClearTimeout(timer)
            /\ outcome' = [kind |-> "threw", message |-> FriendlyMessage(err), success |-> FALSE]
            /\ delays' = delays
       ELSE /\ pc' = "waiting"
            /\ timeoutId' = timer
            /\ outcome' = outcome
            /\ delays' = Append(delays, [after |-> attempt, ms |-> BackoffDelay(attempt)])
    /\ UNCHANGED <<attempt, signalAborted, fetchCount>>

\* ApiUtils.request is called: controller and timeout timer are created and
\* the first fetch is issued
Request ==
    /\ pc \in {"idle", "returned", "threw"}
    /\ pc' = "fetching"
    /\ attempt' = 1
    /\ timeoutId' = "pending"
    /\ signalAborted' = FALSE
    /\ lastError' = NoMessage
    /\ outcome' = [kind |-> "none", message |-> NoMessage, success |-> FALSE]
    /\ replies' = <<>>
    /\ delays' = <<>>
    /\ fetchCount' = 1
    /\ UNCHANGED <<storeVars, recVars, prefVars, homeVars>>

\* fetch resolves with a response: clearTimeout, then the status and body decide
FetchResolves ==
    /\ pc = "fetching"
    /\ ~signalAborted
    /\ \E r \in Responses :
        /\ replies' = Append(replies, r)
        /\ IF r.status < 200 \/ r.status > 299
           THEN Catch(HttpError(r.status, r.text), ClearTimeout(timeoutId))
           ELSE IF r.json = "bad"
           THEN Catch(Message("Unexpected token < in JSON at position 0", 0, ""),
                      ClearTimeout(timeoutId))
           ELSE /\ pc' = "returned"
                /\ timeoutId' = ClearTimeout(timeoutId)
                /\ outcome' = [kind |-> "returned", message |-> NoMessage, success |-> r.success]
                /\ UNCHANGED <<attempt, signalAborted, lastError, delays, fetchCount>>
    /\ UNCHANGED <<storeVars, recVars, prefVars, homeVars>>

\* fetch rejects with a network failure: the clearTimeout after it is skipped
FetchRejects ==
    /\ pc = "fetching"
    /\ ~signalAborted
    /\ \E m \in NetworkFailures :
        /\ replies' = Append(replies, Reply("reject", 0, m, "none", FALSE))
        /\ Catch(Message(m, 0, ""), timeoutId)
    /\ UNCHANGED <<storeVars, recVars, prefVars, homeVars>>

\* fetch rejects with an AbortError because the signal is aborted
FetchAborted ==
    /\ pc = "fetching"
    /\ signalAborted
    /\ replies' = Append(replies, Reply("abort", 0, "", "none", FALSE))
    /\ Catch(Message("The user aborted a request.", 0, ""), timeoutId)
    /\ UNCHANGED <<storeVars, recVars, prefVars, homeVars>>

\* the timeout timer fires: controller.abort()
TimeoutFires ==
    /\ timeoutId = "pending"
    /\ timeoutId' = "fired"
    /\ signalAborted' = TRUE
    /\ UNCHANGED <<pc, attempt, lastError, outcome, replies, delays, fetchCount>>
    /\ UNCHANGED <<storeVars, recVars, prefVars, homeVars>>

\* mutant of BackoffElapsed: the next fetch is issued without waiting for the
\* attempt in flight to settle
BackoffElapsed_Eager ==
    /\ pc \in {"waiting", "fetching"}
    /\ attempt < maxRetries
    /\ pc' = "fetching"
    /\ attempt' = attempt + 1
    /\ fetchCount' = fetchCount + 1
    /\ UNCHANGED <<timeoutId, signalAborted, lastError, outcome, replies, delays>>
    /\ UNCHANGED <<storeVars, recVars, prefVars, homeVars>>

\* the backoff wait is over: attempt++ and the next fetch is issued
BackoffElapsed ==
    /\ pc = "waiting"
    /\ pc' = "fetching"
    /\ attempt' = attempt + 1
    /\ fetchCount' = fetchCount + 1
    /\ UNCHANGED <<timeoutId, signalAborted, lastError, outcome, replies, delays>>
    /\ UNCHANGED <<storeVars, recVars, prefVars, homeVars>>

InitApi ==
    /\ pc = "idle"
    /\ attempt = 0
    /\ timeoutId = "none"
    /\ signalAborted = FALSE
    /\ lastError = NoMessage
    /\ outcome = [kind |-> "none", message |-> NoMessage, success |-> FALSE]
    /\ replies = <<>>
    /\ delays = <<>>
    /\ fetchCount = 0

NextApi ==
    \/ Request
    \/ FetchResolves
    \/ FetchRejects
    \/ FetchAborted
    \/ TimeoutFires
    \/ BackoffElapsed

\* ApiUtils.testConnection(): response.success of get('/health'), false when it throws
testConnection(o) == o.kind = "returned" /\ o.success

\* ApiUtils.getApiStatus().connected: true whenever get('/health') returned
getApiStatus(o) == [connected |-> o.kind = "returned"]

(***************************************************************************)
(* Claims about ApiUtils.request                                           *)
(***************************************************************************)
IsSuccess(r) == r.kind = "response" /\ r.status = 200 /\ r.json = "ok"

\* C3: a call whose first two attempts receive HTTP 500 and whose third
\* succeeds returns that response, after exactly two waits: retryDelay * 1
\* after the first attempt and the strictly larger retryDelay * 2 after the second.
C3_RetryBackoff ==
    ( /\ Len(replies) = 3
      /\ replies[1].status = 500
      /\ replies[2].status = 500
      /\ IsSuccess(replies[3]) ) =>
        /\ pc = "returned"
        /\ outcome.kind = "returned"
        /\ outcome.success = replies[3].success
        /\ fetchCount = 3
        /\ delays = << [after |-> 1, ms |-> retryDelay * 1], [after |-> 2, ms |-> retryDelay * 2] >>
        /\ delays[2].ms > delays[1].ms

\* C3 witness: 500, 500, then success has been served
C3_Witness ==
    /\ Len(replies) = 3
    /\ replies[1].status = 500
    /\ replies[2].status = 500
    /\ IsSuccess(replies[3])
    /\ pc = "returned"

\* C4: a call whose first attempt receives HTTP 404 makes exactly one network
\* attempt, waits for no backoff delay and ends with an error.
C4_Terminal404 ==
    (Len(replies) >= 1 /\ replies[1].status = 404) =>
        /\ pc = "threw"
        /\ outcome.kind = "threw"
        /\ fetchCount = 1
        /\ Len(replies) = 1
        /\ delays = <<>>

\* C4 witness: the first attempt got a 404 and the call has ended
C4_Witness ==
    /\ Len(replies) = 1
    /\ replies[1].status = 404
    /\ pc = "threw"

\* 4xx statuses other than 404 and 429 (413 among them)
TerminalClientStatuses == { st \in ErrorStatuses : st >= 400 /\ st <= 499 } \ {404, 429}

\* C5: when an attempt receives HTTP 413 or a 4xx status other than 404 and
\* 429, the retry loop stops at that attempt: the call ends there, no backoff
\* wait follows it and no further attempt is made.
C5_ClientErrorsTerminal ==
    \A i \in 1..Len(replies) :
        replies[i].status \in TerminalClientStatuses =>
            /\ pc = "threw"
            /\ Len(replies) = i
            /\ fetchCount = i
            /\ \A k \in 1..Len(delays) : delays[k].after # i

\* C6: whenever an attempt is in flight, the first or a retried one, the
\* timeout timer is armed or has already aborted the signal, so an attempt
\* that never receives a reply is ended by the timeout.
C6_TimeoutCoversEveryAttempt ==
    pc = "fetching" => (timeoutId = "pending" \/ signalAborted)

\* C15: a response body with success: false is never returned to the caller
\* as a successful result, and getApiStatus does not report connected: true
\* for a health reply with success: false.
C15_SuccessFalseIsFailure ==
    /\ outcome.kind = "returned" => outcome.success
    /\ (pc \in {"returned", "threw"} /\ getApiStatus(outcome).connected) => outcome.success

\* an attempt that failed with a retryable failure: a generic network failure or a 5xx
RetryableFailure(r) ==
    \/ r.kind = "reject"
    \/ r.kind = "response" /\ r.status >= 500 /\ r.status <= 599

\* C18: a call makes at most maxRetries fetches; when every attempt failed
\* with a retryable failure it has made exactly maxRetries when it throws;
\* the wait after the k-th failed attempt, k < maxRetries, is retryDelay * k,
\* and no wait follows the last attempt.
C18_RetrySchedule ==
    /\ fetchCount <= maxRetries
    /\ \A k \in 1..Len(delays) :
            /\ k < maxRetries
            /\ delays[k] = [after |-> k, ms |-> retryDelay * k]
    /\ \A k \in 1..Len(replies) :
            (RetryableFailure(replies[k]) /\ k < maxRetries) => Len(delays) >= k
    /\ (pc = "threw" /\ \A k \in 1..Len(replies) : RetryableFailure(replies[k]))
            => (fetchCount = maxRetries /\ Len(delays) = maxRetries - 1)

\* fetches of the current call that were issued and have not settled
InFlight == fetchCount - Len(replies)

\* C19: at most one fetch of a call is in flight, and attempt k+1 is started
\* only after attempt k has settled and its backoff wait is over.
C19_AttemptsSequential ==
    /\ InFlight \in {0, 1}
    /\ (InFlight = 1) <=> (pc = "fetching")
    /\ fetchCount >= 1 => (Len(replies) >= fetchCount - 1 /\ Len(delays) >= fetchCount - 1)

\* C19 witness: a third attempt is in flight after two settled attempts and two waits
C19_Witness ==
    /\ pc = "fetching"
    /\ fetchCount = 3
    /\ Len(replies) = 2
    /\ Len(delays) = 2

\* C20: when the call has returned or thrown, the timeout timer has been
\* cancelled or has fired; no pending timer is left behind.
C20_TimerReleased ==
    pc \in {"returned", "threw"} => timeoutId \in {"cleared", "fired"}

\* C20 witness: the call threw after every attempt was rejected, a path that
\* never reaches the clearTimeout after fetch
C20_Witness ==
    /\ pc = "threw"
    /\ Len(replies) = maxRetries
    /\ \A k \in 1..Len(replies) : replies[k].kind = "reject"
    /\ timeoutId = "cleared"

(***************************************************************************)
(* AudioRecorder                                                           *)
(***************************************************************************)
\* the maxDuration prop (300 s by default), scaled: in periods of the duration timer
maxDuration == 2
\* startRecording calls in one run
MaxSessions == 2
\* the clock is followed until one period past the ceiling
MaxElapsed == maxDuration + 1

SessionIds == 1..MaxSessions

\* One startRecording call.  phase: "unused", "awaiting" (getUserMedia
\* pending), "failed" (start threw), "recording" / "inactive" (the state of
\* its MediaRecorder).  stream: "none", "live", "stopped" (its tracks).
\* stopPending: the recorder's stop event is queued.  interval: the duration
\* interval it created is still set.  completes / payload / errors: calls of
\* onRecordingComplete, the chunks of the blob handed over, calls of onRecordingError.
NoSession ==
    [phase |-> "unused", stream |-> "none", stopPending |-> FALSE, interval |-> FALSE,
     endedBy |-> "none", completes |-> 0, payload |-> {}, errors |-> 0]

\* setRecordingState: React drops state updates of an unmounted component
SetRecordingState(next) == IF mounted THEN next ELSE recordingState

\* MediaRecorder.stop() on session k's recorder: a recording recorder becomes
\* inactive and its dataavailable and stop events are queued; on an inactive
\* recorder the call does nothing
MediaRecorderStop(ss, k, why) ==
    IF ss[k].phase = "recording"
    THEN [ss EXCEPT ![k].phase = "inactive", ![k].stopPending = TRUE, ![k].endedBy = why]
    ELSE ss

\* stream.getTracks().forEach(track => track.stop()) on session k's stream; a
\* recorder still recording from it stops, since all its tracks have ended
StopTracks(ss, k) ==
    [MediaRecorderStop(ss, k, "tracks") EXCEPT ![k].stream = "stopped"]

\* clearInterval on the interval session k created
ClearInterval(ss, k) == [ss EXCEPT ![k].interval = FALSE]

\* onRecordingComplete(recording) for session k with a blob of these chunks
OnRecordingComplete(ss, k, chunks) ==
    [ss EXCEPT ![k].completes = @ + 1, ![k].payload = chunks]

\* onRecordingError(errorMessage) for session k
OnRecordingError(ss, k) == [ss EXCEPT ![k].errors = @ + 1]

\* mutant of stopRecording: also hands the result over itself
stopRecording_AlsoEmits(rs, why) ==
    IF mediaRecorderRef # 0 /\ rs.isRecording
    THEN /\ sessions' = OnRecordingComplete(MediaRecorderStop(sessions, mediaRecorderRef, why),
                                            mediaRecorderRef, audioChunksRef)
         /\ recordingState' = [rs EXCEPT !.isRecording = FALSE]
    ELSE /\ sessions' = sessions
         /\ recordingState' = rs

\* stopRecording, entered with recordingState rs
stopRecording(rs, why) ==
    IF mediaRecorderRef # 0 /\ rs.isRecording
    THEN /\ sessions' = MediaRecorderStop(sessions, mediaRecorderRef, why)
         /\ recordingState' = [rs EXCEPT !.isRecording = FALSE]
    ELSE /\ sessions' = sessions
         /\ recordingState' = rs

\* mutant of AutoStopDue: strictly greater than maxDuration
AutoStopDue_Strict(rs) == rs.isRecording /\ rs.duration > maxDuration

\* the condition of the auto-stop effect
AutoStopDue(rs) == rs.isRecording /\ rs.duration >= maxDuration

\* toggleRecording while not recording: startRecording up to its first await.
\* On iOS Safari outside a secure context it throws before getUserMedia.
ToggleStart ==
    /\ UNCHANGED <<storeVars, apiVars, prefVars, homeVars>>
    /\ mounted
    /\ ~recordingState.isRecording
    /\ nextSession <= MaxSessions
    /\ nextSession' = nextSession + 1
    /\ \E insecure \in BOOLEAN :
        IF insecure
        THEN /\ sessions' = OnRecordingError([sessions EXCEPT ![nextSession].phase = "failed"],
                                             nextSession)
             /\ recordingState' = recordingState
        ELSE /\ sessions' = [sessions EXCEPT ![nextSession].phase = "awaiting"]
             /\ recordingState' = recordingState
    /\ UNCHANGED <<mediaRecorderRef, audioChunksRef, elapsed, durationIntervalRef,
                   streamRef, mounted>>

\* toggleRecording while recording: stopRecording
ToggleStop ==
    /\ UNCHANGED <<storeVars, apiVars, prefVars, homeVars>>
    /\ mounted
    /\ recordingState.isRecording
    /\ stopRecording(recordingState, "stop")
    /\ UNCHANGED <<mediaRecorderRef, audioChunksRef, elapsed, durationIntervalRef,
                   streamRef, mounted, nextSession>>

\* mutant of GetUserMediaRejects: the catch block also enters the recording state
GetUserMediaRejects_Records ==
    /\ UNCHANGED <<storeVars, apiVars, prefVars, homeVars>>
    /\ \E s \in SessionIds :
        /\ sessions[s].phase = "awaiting"
        /\ sessions' = OnRecordingError([sessions EXCEPT ![s].phase = "failed"], s)
        /\ recordingState' = SetRecordingState([isRecording |-> TRUE, duration |-> 0])
    /\ UNCHANGED <<mediaRecorderRef, audioChunksRef, elapsed, durationIntervalRef,
                   streamRef, mounted, nextSession>>

\* getUserMedia rejects (NotAllowedError, NotFoundError, ...): the catch block
GetUserMediaRejects ==
    /\ UNCHANGED <<storeVars, apiVars, prefVars, homeVars>>
    /\ \E s \in SessionIds :
        /\ sessions[s].phase = "awaiting"
        /\ sessions' = OnRecordingError([sessions EXCEPT ![s].phase = "failed"], s)
        /\ recordingState' = recordingState
    /\ UNCHANGED <<mediaRecorderRef, audioChunksRef, elapsed, durationIntervalRef,
                   streamRef, mounted, nextSession>>

\* getUserMedia resolves: the rest of startRecording.  new MediaRecorder
\* throws when the chosen MIME type is not supported (the catch block), or
\* the recorder is created, the handlers are set and recording starts.
GetUserMediaResolves ==
    /\ UNCHANGED <<storeVars, apiVars, prefVars, homeVars>>
    /\ \E s \in SessionIds, constructed \in BOOLEAN :
        /\ sessions[s].phase = "awaiting"
        /\ streamRef' = s
        /\ IF ~constructed
           THEN /\ sessions' = OnRecordingError(
                        [sessions EXCEPT ![s].stream = "live", ![s].phase = "failed"], s)
                /\ recordingState' = recordingState
                /\ UNCHANGED <<mediaRecorderRef, audioChunksRef, elapsed, durationIntervalRef>>
           ELSE /\ sessions' = [sessions EXCEPT ![s].stream = "live", ![s].phase = "recording",
                                                ![s].interval = TRUE]
                /\ mediaRecorderRef' = s
                /\ audioChunksRef' = {}
                /\ elapsed' = 0
                /\ recordingState' = SetRecordingState(
                        [isRecording |-> TRUE, duration |-> 0])
                /\ durationIntervalRef' = s
    /\ UNCHANGED <<mounted, nextSession>>

\* audioChunksRef.current.push(event.data)
PushChunk(chunks, s) == chunks \cup {s}

\* mediaRecorder.ondataavailable with event.data.size > 0 (an empty chunk is ignored)
DataAvailable ==
    /\ UNCHANGED <<storeVars, apiVars, prefVars, homeVars>>
    /\ \E s \in SessionIds :
        /\ sessions[s].phase = "recording"
        /\ audioChunksRef' = PushChunk(audioChunksRef, s)
    /\ UNCHANGED <<recordingState, mediaRecorderRef, elapsed, durationIntervalRef,
                   streamRef, mounted, sessions, nextSession>>

\* The queued events of a stopped recorder are delivered: the last
\* dataavailable (its data may be empty), then mediaRecorder.onstop, which
\* builds the blob from the chunk buffer, hands the recording over and cleans up.
RecorderStops ==
    /\ UNCHANGED <<storeVars, apiVars, prefVars, homeVars>>
    /\ \E s \in SessionIds, lastChunk \in BOOLEAN :
        /\ sessions[s].stopPending
        /\ LET chunks == IF lastChunk THEN PushChunk(audioChunksRef, s) ELSE audioChunksRef
               delivered == [sessions EXCEPT ![s].stopPending = FALSE]
               emitted == OnRecordingComplete(delivered, s, chunks)
               released == IF streamRef # 0 THEN StopTracks(emitted, streamRef) ELSE emitted
               cleared == IF durationIntervalRef # 0
                          THEN ClearInterval(released, durationIntervalRef) ELSE released
           IN  /\ audioChunksRef' = chunks
               /\ sessions' = cleared
               /\ streamRef' = 0
               /\ durationIntervalRef' = 0
    /\ UNCHANGED <<recordingState, mediaRecorderRef, elapsed, mounted, nextSession>>

\* mediaRecorder.onerror: the error is shown and reported.  The platform has
\* stopped the recorder before it fires the error event, and the recorder's
\* dataavailable and stop events follow.
RecorderErrors ==
    /\ UNCHANGED <<storeVars, apiVars, prefVars, homeVars>>
    /\ \E s \in SessionIds :
        /\ sessions[s].phase = "recording"
        /\ sessions' = OnRecordingError(MediaRecorderStop(sessions, s, "error"), s)
        /\ recordingState' = recordingState
    /\ UNCHANGED <<mediaRecorderRef, audioChunksRef, elapsed, durationIntervalRef,
                   streamRef, mounted, nextSession>>

\* A duration interval fires: duration is set from the clock, and the
\* auto-stop effect that depends on it runs after the render.
Tick ==
    /\ UNCHANGED <<storeVars, apiVars, prefVars, homeVars>>
    /\ mounted
    /\ \E i \in SessionIds : sessions[i].interval
    /\ LET ticked == [recordingState EXCEPT !.duration = elapsed]
       IN  IF AutoStopDue(ticked)
           THEN stopRecording(ticked, "auto-stop")
           ELSE /\ recordingState' = ticked
                /\ sessions' = sessions
    /\ UNCHANGED <<mediaRecorderRef, audioChunksRef, elapsed, durationIntervalRef,
                   streamRef, mounted, nextSession>>

\* time passes (only the time elapsed while a duration interval is set is ever read)
AdvanceTime ==
    /\ UNCHANGED <<storeVars, apiVars, prefVars, homeVars>>
    /\ elapsed < MaxElapsed
    /\ \E i \in SessionIds : sessions[i].interval
    /\ elapsed' = elapsed + 1
    /\ UNCHANGED <<recordingState, mediaRecorderRef, audioChunksRef,
                   durationIntervalRef, streamRef, mounted, sessions, nextSession>>

\* the cleanup of the unmount effect: clearInterval and track.stop(), the refs are kept
Unmount ==
    /\ UNCHANGED <<storeVars, apiVars, prefVars, homeVars>>
    /\ mounted
    /\ mounted' = FALSE
    /\ LET cleared == IF durationIntervalRef # 0
                      THEN ClearInterval(sessions, durationIntervalRef) ELSE sessions
       IN  sessions' = IF streamRef # 0 THEN StopTracks(cleared, streamRef) ELSE cleared
    /\ UNCHANGED <<recordingState, mediaRecorderRef, audioChunksRef, elapsed,
                   durationIntervalRef, streamRef, nextSession>>

InitRec ==
    /\ recordingState = [isRecording |-> FALSE, duration |-> 0]
    /\ mediaRecorderRef = 0
    /\ audioChunksRef = {}
    /\ elapsed = 0
    /\ durationIntervalRef = 0
    /\ streamRef = 0
    /\ mounted = TRUE
    /\ sessions = [s \in SessionIds |-> NoSession]
    /\ nextSession = 1

NextRec ==
    \/ ToggleStart
    \/ ToggleStop
    \/ GetUserMediaRejects
    \/ GetUserMediaResolves
    \/ DataAvailable
    \/ RecorderStops
    \/ RecorderErrors
    \/ Tick
    \/ AdvanceTime
    \/ Unmount

(***************************************************************************)
(* Claims about AudioRecorder                                              *)
(***************************************************************************)
\* C7: a capture session calls onRecordingComplete at most once, and a
\* session ended by stop() (a toggle or the auto-stop), once its stop event
\* has been delivered, has called it exactly once.
C7_OneResultPerSession ==
    \A s \in SessionIds :
        /\ sessions[s].completes <= 1
        /\ (sessions[s].endedBy \in {"stop", "auto-stop"} /\ ~sessions[s].stopPending)
                => sessions[s].completes = 1

\* C7 witness: a session ended by a toggle and one ended by a recorder error
\* have both delivered their stop event
C7_Witness ==
    \E s, t \in SessionIds :
        /\ sessions[s].endedBy = "stop" /\ ~sessions[s].stopPending
        /\ sessions[t].endedBy = "error" /\ ~sessions[t].stopPending
        /\ sessions[t].errors = 1

\* a session is over: its start failed, or its recorder is inactive and the
\* stop event has been delivered
SessionEnded(s) ==
    \/ sessions[s].phase = "failed"
    \/ sessions[s].phase = "inactive" /\ ~sessions[s].stopPending

\* C8: whenever a capture session has ended, by stop, auto-stop, unmount, a
\* recorder error or a failure inside start() after the stream was acquired,
\* the stream it acquired has had its tracks stopped.
C8_DeviceReleased ==
    \A s \in SessionIds : SessionEnded(s) => sessions[s].stream # "live"

\* C9: a session that stops with an empty chunk buffer does not call
\* onRecordingComplete with a zero-size payload; it reports the failed
\* capture through onRecordingError.
C9_NoZeroLengthResult ==
    \A s \in SessionIds :
        (sessions[s].phase = "inactive" /\ ~sessions[s].stopPending /\ sessions[s].payload = {})
            => (sessions[s].completes = 0 /\ sessions[s].errors >= 1)

ActiveSessions == {s \in SessionIds : sessions[s].phase \in {"awaiting", "recording"}}

\* C21: a start request takes effect only from idle: no second start is
\* pending or recording next to an earlier one, and at most one device stream
\* is live and at most one duration interval is set at any time.
C21_StartOnlyFromIdle ==
    /\ Cardinality(ActiveSessions) <= 1
    /\ Cardinality({s \in SessionIds : sessions[s].stream = "live"}) <= 1
    /\ Cardinality({s \in SessionIds : sessions[s].interval}) <= 1

\* C22: after the recorder's error event the capturer has left the recording
\* state (so that the next toggle starts a new session), exactly one error
\* has been reported for the session and, once the recorder's events are
\* delivered, its duration interval is cleared.
C22_RecorderErrorIsTerminal ==
    \A s \in SessionIds :
        sessions[s].endedBy = "error"
            => /\ sessions[s].errors = 1
               /\ (mediaRecorderRef = s /\ mounted) => ~recordingState.isRecording
               /\ ~sessions[s].stopPending => ~sessions[s].interval

\* a start that failed before a stream was acquired: insecure context, or
\* getUserMedia rejected (permission denied, no device)
FailedBeforeStream(s) == sessions[s].phase = "failed" /\ sessions[s].stream = "none"

\* C23: a start that fails on an insecure context, a denied permission or a
\* missing device reports exactly one error, leaves the recording state as it
\* was, and has no recorder, no duration interval, no stream and no result.
C23_FailedStartDoesNothingElse ==
    [][ /\ \A s \in SessionIds :
              FailedBeforeStream(s)'
                  => /\ sessions'[s].errors = 1
                     /\ sessions'[s].completes = 0
                     /\ sessions'[s].payload = {}
                     /\ ~sessions'[s].interval
                     /\ ~sessions'[s].stopPending
                     /\ mediaRecorderRef' # s
                     /\ durationIntervalRef' # s
                     /\ streamRef' # s
        /\ (\E s \in SessionIds : ~FailedBeforeStream(s) /\ FailedBeforeStream(s)')
              => /\ recordingState' = recordingState
                 /\ mediaRecorderRef' = mediaRecorderRef
                 /\ durationIntervalRef' = durationIntervalRef
                 /\ audioChunksRef' = audioChunksRef ]_vars

\* C23 witness: one start failed on an insecure context and one on a rejected
\* getUserMedia, the second while nothing was being recorded
C23_Witness ==
    /\ \A s \in SessionIds : FailedBeforeStream(s) /\ sessions[s].errors = 1
    /\ ~recordingState.isRecording
    /\ mediaRecorderRef = 0

\* C24: the result of a session is built from that session's chunks only, and
\* while the component is mounted no recorder is stopped by the cleanup of
\* another session (its tracks ended under it).
C24_SessionIsolation ==
    \A s \in SessionIds :
        /\ sessions[s].completes > 0 => sessions[s].payload \subseteq {s}
        /\ mounted => sessions[s].endedBy # "tracks"

(***************************************************************************)
(* Preferences: StorageUtils.getSettings, DailyStorageManager,             *)
(* ThemeStorageManager and the settings UI                                 *)
(***************************************************************************)
Themes == {"modern-blue", "dark"}
FontSizes == {"medium", "large"}
DisplayModes == {"combined", "emoji-only"}

\* preferences records of the UserSettings type
TypedSettings ==
    { Settings(t, f, d) : t \in Themes, f \in FontSizes, d \in DisplayModes }

\* DailyStorageManager.getDefaultSettings(), and the defaults of
\* StorageUtils.getSettings and SettingsPanel.resetSettings
getDefaultSettings == Settings("modern-blue", "medium", "combined")

\* JSON.stringify of a timestamp that is a Date (in memory) or already a string (parsed)
TimestampToJSON(t) == IF t \in {"D0", "D1", "InvalidDate"} THEN DateToJSON(t) ELSE t

\* JSON.stringify / JSON.parse of a bucket: the transcripts' Dates become strings
StringifyBucket(data) ==
    [data EXCEPT !.transcripts =
        [i \in 1..Len(@) |-> [@[i] EXCEPT !.timestamp = TimestampToJSON(@)]]]

\* what saveData leaves in the object it was given: data.metadata.lastUpdated = Date.now()
Touched(data) == [data EXCEPT !.lastUpdated = Now]

\* DailyStorageManager.saveData(data): the substrate after the call
saveData(ls, data) == StorageSet(ls, STORAGE_KEY, StringifyBucket(Touched(data)))

\* StorageUtils.saveSettings(settings)
StorageUtils_saveSettings(ls, settings) == StorageSet(ls, SETTINGS_KEY, settings)

\* the result of a read that may write: the value returned, the substrate
\* after the call, whether the displayMode migration ran, whether it threw
Result(ret, ls, migrated, threw) ==
    [ret |-> ret, ls |-> ls, migrated |-> migrated, threw |-> threw]

\* mutant of NeedsMigration: the migration runs on every read
NeedsMigration_Always(settings) == TRUE

\* !settings.displayMode
NeedsMigration(settings) == settings.displayMode = Undefined

\* DailyStorageManager.getCurrentData()
getCurrentData(ls) ==
    LET got == StorageGet(ls, STORAGE_KEY)
        stored == got.value
    IN  IF ~got.found \/ stored.date # Today
        THEN LET newData == Bucket(Today, TRUE, getDefaultSettings, <<>>, Now)
             IN  Result(newData, saveData(ls, newData), FALSE, FALSE)
        ELSE IF stored.hasSettings /\ NeedsMigration(stored.settings)
        THEN LET migratedData == [stored EXCEPT !.settings.displayMode = "combined"]
             IN  Result(Touched(migratedData), saveData(ls, migratedData), TRUE, FALSE)
        ELSE Result(stored, ls, FALSE, FALSE)

\* StorageUtils.getSettings()
StorageUtils_getSettings(ls) ==
    LET got == StorageGet(ls, SETTINGS_KEY)
        savedSettings == got.value
    IN  IF ~got.found
        THEN Result(getDefaultSettings, ls, FALSE, FALSE)
        ELSE IF NeedsMigration(savedSettings)
        THEN LET migratedSettings == [savedSettings EXCEPT !.displayMode = "combined"]
             IN  Result(migratedSettings, StorageUtils_saveSettings(ls, migratedSettings),
                        TRUE, FALSE)
        ELSE Result(savedSettings, ls, FALSE, FALSE)

\* ThemeStorageManager.getSettings(): getCurrentData().settings, which is
\* undefined (EmptyObject here, hasSettings FALSE in the bucket) when the
\* bucket has no settings property
ThemeStorageManager_getSettings(ls) ==
    LET data == getCurrentData(ls)
    IN  Result(IF data.ret.hasSettings THEN data.ret.settings ELSE EmptyObject,
               data.ls, data.migrated, FALSE)

\* ThemeStorageManager.saveSettings(settings)
ThemeStorageManager_saveSettings(ls, settings) ==
    LET data == getCurrentData(ls)
        updated == [data.ret EXCEPT !.hasSettings = TRUE, !.settings = settings]
    IN  Result(settings, StorageUtils_saveSettings(saveData(data.ls, updated), settings),
               data.migrated, FALSE)

\* ThemeStorageManager.saveTheme(theme): data.settings.theme = theme throws a
\* TypeError when the bucket has no settings property
ThemeStorageManager_saveTheme(ls, theme) ==
    LET data == getCurrentData(ls)
        updated == [data.ret EXCEPT !.settings.theme = theme]
    IN  IF ~data.ret.hasSettings
        THEN Result(EmptyObject, data.ls, data.migrated, TRUE)
        ELSE Result(updated.settings,
                    StorageUtils_saveSettings(saveData(data.ls, updated), updated.settings),
                    data.migrated, FALSE)

\* ThemeStorageManager.initialize(): legacy settings, when there are any, are
\* saved into the daily bucket
ThemeStorageManager_initialize(ls) ==
    LET legacySettings == StorageGet(ls, SETTINGS_KEY)
    IN  IF legacySettings.found
        THEN ThemeStorageManager_saveSettings(ls, legacySettings.value)
        ELSE Result(EmptyObject, ls, FALSE, FALSE)

\* mutant of scheduleMidnightReset: no timer is set
scheduleMidnightReset_Never(timers) == timers

\* DailyStorageManager.scheduleMidnightReset(): one setTimeout for the next
\* local midnight is added to the pending timers
scheduleMidnightReset(timers) == timers + 1

\* DailyStorageManager.resetDailyData(): the bucket getCurrentData returns,
\* with today's date and no transcripts, is saved
resetDailyData(ls) ==
    LET data == getCurrentData(ls)
        newData == [data.ret EXCEPT !.date = Today, !.transcripts = <<>>]
    IN  Result(Touched(newData), saveData(data.ls, newData), data.migrated, FALSE)

\* One call, for the history: its name, the date it ran on, the bucket it
\* returned (or was given), the preferences it returned, whether it migrated,
\* whether it threw, and what it came after on the same date: "migration" (a
\* call of the same name that migrated), "saveData", or "other".
PrefCall(op, bucket, settings, migrated, threw) ==
    [op |-> op, day |-> Today, bucket |-> bucket, settings |-> settings,
     migrated |-> migrated, threw |-> threw,
     after |-> IF lastPref.day = Today /\ lastPref.op = op /\ lastPref.migrated
               THEN "migration"
               ELSE IF lastPref.day = Today /\ lastPref.op = "saveData"
               THEN "saveData" ELSE "other"]

\* buckets handed to DailyStorageManager.saveData directly
SavedBuckets ==
    { Bucket(Today, TRUE, st, tr, EarlierInstant) :
        st \in {getDefaultSettings, Settings("dark", "large", "emoji-only")},
        tr \in {<<>>, <<[id |-> 1, bytes |-> 40, timestamp |-> "D1"]>>} }

\* DailyStorageManager.getStorageInfo() and isStorageNearLimit(): both call
\* getCurrentData() and read the metadata of the bucket it returns
getStorageInfo(ls) == getCurrentData(ls)

\* DailyStorageManager.getStorageInfo() / isStorageNearLimit()
GetStorageInfo ==
    /\ LET r == getStorageInfo(localStorage)
       IN  /\ localStorage' = r.ls
           /\ lastPref' = PrefCall("getStorageInfo", r.ret, EmptyObject, r.migrated, FALSE)
    /\ UNCHANGED <<lastCall, started, homeSettings, panelSettings>>
    /\ UNCHANGED <<apiVars, recVars, homeVars>>

\* DailyStorageManager.getCurrentData() (also through
\* ThemeStorageManager.getCurrentTheme)
GetCurrentData ==
    /\ LET r == getCurrentData(localStorage)
       IN  /\ localStorage' = r.ls
           /\ lastPref' = PrefCall("getCurrentData", r.ret, EmptyObject, r.migrated, FALSE)
    /\ UNCHANGED <<lastCall, started, homeSettings, panelSettings>>
    /\ UNCHANGED <<apiVars, recVars, homeVars>>

\* StorageUtils.getSettings()
GetSettings ==
    /\ LET r == StorageUtils_getSettings(localStorage)
       IN  /\ localStorage' = r.ls
           /\ lastPref' = PrefCall("StorageUtils.getSettings", NoBucket, r.ret, r.migrated, FALSE)
    /\ UNCHANGED <<lastCall, started, homeSettings, panelSettings>>
    /\ UNCHANGED <<apiVars, recVars, homeVars>>

\* ThemeStorageManager.getSettings()
ThemeGetSettings ==
    /\ LET r == ThemeStorageManager_getSettings(localStorage)
       IN  /\ localStorage' = r.ls
           /\ lastPref' = PrefCall("ThemeStorageManager.getSettings", NoBucket, r.ret,
                                   r.migrated, FALSE)
    /\ UNCHANGED <<lastCall, started, homeSettings, panelSettings>>
    /\ UNCHANGED <<apiVars, recVars, homeVars>>

\* TranscriptStorageManager.getTranscripts(): the returned list is kept in
\* the call record's merged field
GetTranscripts ==
    /\ lastCall' = Call("getTranscripts", localStorage[TRANSCRIPTS_KEY].value, <<>>,
                        getTranscripts(localStorage), TRUE)
    /\ UNCHANGED <<localStorage, prefVars>>
    /\ UNCHANGED <<apiVars, recVars, homeVars>>

\* DailyStorageManager.saveData(data) with a bucket of today
SaveData ==
    /\ \E data \in SavedBuckets :
        /\ localStorage' = saveData(localStorage, data)
        /\ lastPref' = PrefCall("saveData", data, EmptyObject, FALSE, FALSE)
    /\ UNCHANGED <<lastCall, started, homeSettings, panelSettings>>
    /\ UNCHANGED <<apiVars, recVars, homeVars>>

\* ThemeStorageManager.saveTheme(theme)
SaveTheme ==
    /\ \E theme \in Themes :
        LET r == ThemeStorageManager_saveTheme(localStorage, theme)
        IN  /\ localStorage' = r.ls
            /\ lastPref' = PrefCall("saveTheme", NoBucket, r.ret, r.migrated, r.threw)
    /\ UNCHANGED <<lastCall, started, homeSettings, panelSettings>>
    /\ UNCHANGED <<apiVars, recVars, homeVars>>

\* The page is loaded in a fresh JavaScript context: Home's and
\* SettingsPanel's first render (both states start from
\* StorageUtils.getSettings()), then Home's init effect:
\* DailyStorageManager.initialize() (getCurrentData, scheduleMidnightReset),
\* ThemeStorageManager.initialize(), setSettings(ThemeStorageManager.getSettings()),
\* applyTheme(savedSettings.theme) - a TypeError when savedSettings is
\* undefined, which takes the page down - and the stored transcripts, which
\* become Home's list when there are any; the save effect then stores the list.
AppStart ==
    /\ LET home == StorageUtils_getSettings(localStorage)
           panel == StorageUtils_getSettings(home.ls)
           daily == getCurrentData(panel.ls)
           theme == ThemeStorageManager_initialize(daily.ls)
           saved == ThemeStorageManager_getSettings(theme.ls)
           crashed == ~getCurrentData(theme.ls).ret.hasSettings
           savedTranscripts == getTranscripts(saved.ls)
           loaded == ~crashed /\ Len(savedTranscripts) > 0
       IN  /\ localStorage' = IF loaded THEN saveTranscripts(saved.ls, savedTranscripts)
                                        ELSE saved.ls
           /\ transcriptionSegments' = IF loaded THEN savedTranscripts ELSE <<>>
           /\ panelSettings' = panel.ret
           /\ homeSettings' = saved.ret
           /\ started' = ~crashed
           /\ lastPref' = PrefCall("appStart", NoBucket, EmptyObject,
                                   home.migrated \/ daily.migrated \/ theme.migrated
                                        \/ saved.migrated,
                                   crashed)
    /\ midnightTimers' = scheduleMidnightReset(0)
    /\ isProcessing' = FALSE
    /\ handler' = "idle"
    /\ lastHandled' = IF handler = "idle" THEN lastHandled
                      ELSE [lastHandled EXCEPT !.result = "abandoned"]
    /\ UNCHANGED <<lastCall, captures>>
    /\ UNCHANGED <<apiVars, recVars>>

\* Home.handleSettingsChange(newSettings), the panel's onSettingsChange
handleSettingsChange(ls, newSettings) == ThemeStorageManager_saveSettings(ls, newSettings)

\* SettingsPanel.updateSettings({ theme }): the panel's state, the legacy
\* key, then onSettingsChange
UpdateSettings ==
    /\ started
    /\ \E theme \in Themes :
        LET updatedSettings == [panelSettings EXCEPT !.theme = theme]
            r == handleSettingsChange(StorageUtils_saveSettings(localStorage, updatedSettings),
                                      updatedSettings)
        IN  /\ panelSettings' = updatedSettings
            /\ homeSettings' = updatedSettings
            /\ localStorage' = r.ls
            /\ lastPref' = PrefCall("updateSettings", NoBucket, EmptyObject,
                                    r.migrated, FALSE)
    /\ UNCHANGED <<lastCall, started>>
    /\ UNCHANGED <<apiVars, recVars, homeVars>>

\* SettingsPanel.resetSettings()
ResetSettings ==
    /\ started
    /\ LET defaultSettings == getDefaultSettings
           r == handleSettingsChange(StorageUtils_saveSettings(localStorage, defaultSettings),
                                     defaultSettings)
       IN  /\ panelSettings' = defaultSettings
           /\ homeSettings' = defaultSettings
           /\ localStorage' = r.ls
           /\ lastPref' = PrefCall("resetSettings", NoBucket, EmptyObject, r.migrated, FALSE)
    /\ UNCHANGED <<lastCall, started>>
    /\ UNCHANGED <<apiVars, recVars, homeVars>>

\* SettingsPanel.setFontSize(value): the legacy key and the panel's state
\* only ("without triggering callbacks")
SetFontSize ==
    /\ started
    /\ \E fontSize \in FontSizes :
        LET updatedSettings == [panelSettings EXCEPT !.fontSize = fontSize]
        IN  /\ panelSettings' = updatedSettings
            /\ localStorage' = StorageUtils_saveSettings(localStorage, updatedSettings)
            /\ lastPref' = PrefCall("setFontSize", NoBucket, EmptyObject, FALSE, FALSE)
    /\ UNCHANGED <<lastCall, started, homeSettings>>
    /\ UNCHANGED <<apiVars, recVars, homeVars>>

\* Home's onDisplayModeChange(mode): Home's state and the legacy key only
DisplayModeChange ==
    /\ started
    /\ \E mode \in DisplayModes :
        LET newSettings == [homeSettings EXCEPT !.displayMode = mode]
        IN  /\ homeSettings' = newSettings
            /\ localStorage' = StorageUtils_saveSettings(localStorage, newSettings)
            /\ lastPref' = PrefCall("onDisplayModeChange", NoBucket, EmptyObject, FALSE, FALSE)
    /\ UNCHANGED <<lastCall, started, panelSettings>>
    /\ UNCHANGED <<apiVars, recVars, homeVars>>

\* A midnight timer set by scheduleMidnightReset fires (at local midnight,
\* where the UTC date key may or may not have changed): resetDailyData(),
\* then scheduleMidnightReset()
MidnightReset ==
    /\ midnightTimers > 0
    /\ LET r == resetDailyData(localStorage)
       IN  /\ localStorage' = r.ls
           /\ lastPref' = PrefCall("resetDailyData", r.ret, EmptyObject, r.migrated, FALSE)
    /\ midnightTimers' = scheduleMidnightReset(midnightTimers - 1)
    /\ UNCHANGED <<lastCall, started, homeSettings, panelSettings>>
    /\ UNCHANGED <<isProcessing, transcriptionSegments, handler, captures, lastHandled>>
    /\ UNCHANGED <<apiVars, recVars>>

\* every Date.now() reading kept in the substrate becomes an earlier one
Elapsed(ls) ==
    [k \in StorageKeys |->
        IF k = STORAGE_KEY
        THEN [ls[k] EXCEPT !.timestamp = EarlierInstant, !.value.lastUpdated = EarlierInstant]
        ELSE [ls[k] EXCEPT !.timestamp = EarlierInstant]]

\* Date.now() moves on
TimePasses ==
    /\ localStorage' = Elapsed(localStorage)
    /\ lastPref' = [lastPref EXCEPT !.bucket.lastUpdated = EarlierInstant]
    /\ UNCHANGED <<lastCall, started, homeSettings, panelSettings>>
    /\ UNCHANGED <<apiVars, recVars, homeVars>>

\* the date key changes
DayRollsOver ==
    /\ localStorage' = [Elapsed(localStorage) EXCEPT ![STORAGE_KEY].value.date = EarlierDay]
    /\ lastPref' = [lastPref EXCEPT !.bucket.lastUpdated = EarlierInstant,
                                    !.bucket.date = EarlierDay, !.day = EarlierDay]
    /\ UNCHANGED <<lastCall, started, homeSettings, panelSettings>>
    /\ UNCHANGED <<apiVars, recVars, homeVars>>

\* preferences as an earlier run of the application or a damaged store left
\* them under the legacy key: nothing, text that does not parse, a value that
\* is no preferences record, a record from before displayMode, a current record
StoredSettings ==
    { AbsentAt(SETTINGS_KEY),
      Entry(TRUE, "unparseable", EmptyObject, EarlierInstant),
      Entry(TRUE, "ok", EmptyObject, EarlierInstant),
      Entry(TRUE, "ok", Settings("dark", "large", Undefined), EarlierInstant),
      Entry(TRUE, "ok", Settings("dark", "large", "emoji-only"), EarlierInstant) }

\* the same for the daily bucket: nothing, text that does not parse, a bucket
\* without settings, a bucket from before displayMode, a current bucket
StoredBuckets ==
    { AbsentAt(STORAGE_KEY),
      Entry(TRUE, "unparseable", NoBucket, EarlierInstant) }
    \cup { Entry(TRUE, "ok", b, EarlierInstant) :
             b \in { Bucket(Today, FALSE, EmptyObject, <<>>, EarlierInstant),
                     Bucket(Today, TRUE, Settings("dark", "large", Undefined), <<>>,
                            EarlierInstant),
                     Bucket(Today, TRUE, Settings("dark", "large", "emoji-only"), <<>>,
                            EarlierInstant) } }

\* the same for the transcripts key: text that does not parse, an object, an
\* array holding null, an array holding a number, a segment of an earlier day
StoredTranscripts ==
    { Entry(TRUE, sh, <<>>, EarlierInstant) :
        sh \in {"unparseable", "notArray", "nullItem", "numbers"} }
    \cup { Entry(TRUE, "ok", <<[id |-> 1, bytes |-> 40, timestamp |-> "iso1"]>>,
                 EarlierInstant) }

\* the preferences side before the page is loaded
InitPrefs ==
    /\ started = FALSE
    /\ homeSettings = EmptyObject
    /\ panelSettings = EmptyObject
    /\ lastPref = [op |-> "none", day |-> Today, bucket |-> NoBucket, settings |-> EmptyObject,
                   migrated |-> FALSE, threw |-> FALSE, after |-> "other"]

\* no ApiUtils.post has settled
NoResponse == [kind |-> "none", success |-> FALSE]

\* Home before the page is loaded
InitHome ==
    /\ midnightTimers = 0
    /\ isProcessing = FALSE
    /\ transcriptionSegments = <<>>
    /\ handler = "idle"
    /\ captures = 0
    /\ lastHandled = [result |-> "none", cause |-> "none", response |-> NoResponse,
                      errorToasts |-> 0, successToasts |-> 0, commits |-> 0]

\* The substrate as an earlier run left it.  Preference reads never touch the
\* transcripts key and getTranscripts touches no other, so the contents of
\* the two are varied separately, next to one store in which all three keys
\* hold what a day of normal use leaves.
InitStored ==
    /\ localStorage \in
          { [k \in StorageKeys |->
                CASE k = STORAGE_KEY  -> b
                  [] k = SETTINGS_KEY -> st
                  [] OTHER            -> AbsentAt(k)] :
              b \in StoredBuckets, st \in StoredSettings }
          \cup
          { [k \in StorageKeys |-> IF k = TRANSCRIPTS_KEY THEN tr ELSE AbsentAt(k)] :
              tr \in StoredTranscripts }
          \cup
          { [k \in StorageKeys |->
                CASE k = STORAGE_KEY  ->
                        Entry(TRUE, "ok",
                              Bucket(Today, TRUE, Settings("dark", "large", "emoji-only"),
                                     <<>>, EarlierInstant),
                              EarlierInstant)
                  [] k = SETTINGS_KEY ->
                        Entry(TRUE, "ok", Settings("dark", "large", "emoji-only"),
                              EarlierInstant)
                  [] OTHER            ->
                        Entry(TRUE, "ok", <<[id |-> 1, bytes |-> 40, timestamp |-> "iso1"]>>,
                              EarlierInstant)] }
    /\ lastCall = Call("none", <<>>, <<>>, <<>>, TRUE)
    /\ InitPrefs
    /\ InitHome

\* the storage classes called directly
NextPrefs ==
    \/ GetCurrentData
    \/ GetStorageInfo
    \/ GetSettings
    \/ ThemeGetSettings
    \/ GetTranscripts
    \/ SaveData
    \/ SaveTheme
    \/ TimePasses
    \/ DayRollsOver

\* the application: page load, the settings UI, the midnight timer
NextApp ==
    \/ AppStart
    \/ UpdateSettings
    \/ ResetSettings
    \/ SetFontSize
    \/ DisplayModeChange
    \/ SaveTheme
    \/ GetCurrentData
    \/ MidnightReset
    \/ TimePasses
    \/ DayRollsOver

(***************************************************************************)
(* Home.handleRecordingComplete                                            *)
(***************************************************************************)
\* recordings handed to handleRecordingComplete in one run
MaxCaptures == 2

\* what an ApiUtils call gives the handler: the parsed body it returned (with
\* its success flag), or a thrown error
HandlerOutcomes ==
    { [kind |-> "returned", success |-> TRUE],
      [kind |-> "returned", success |-> FALSE],
      [kind |-> "threw",    success |-> FALSE] }

\* sizes of the segment text built from response.data
SegmentSizes == {40, 120}

\* mutant of Committable: any returned body is committed
Committable_Always(response) == response.kind = "returned"

\* the post returned and `if (response.success)` holds
Committable(response) == response.kind = "returned" /\ response.success

\* the catch block and the finally block: one error toast, isProcessing cleared
HandlerFails(cause, response) ==
    /\ lastHandled' = [lastHandled EXCEPT !.result = "failed", !.cause = cause,
                                          !.response = response,
                                          !.errorToasts = @ + 1]
    /\ isProcessing' = FALSE
    /\ handler' = "idle"
    /\ UNCHANGED <<storeVars, transcriptionSegments>>

\* handleRecordingComplete(recording) up to its first await
HandleRecordingComplete ==
    /\ started
    /\ handler = "idle"
    /\ captures < MaxCaptures
    /\ captures' = captures + 1
    /\ isProcessing' = TRUE
    /\ handler' = "converting"
    /\ lastHandled' = [lastHandled EXCEPT !.result = "running", !.cause = "none",
                                          !.response = NoResponse,
                                          !.errorToasts = 0, !.successToasts = 0]
    /\ UNCHANGED <<storeVars, midnightTimers, transcriptionSegments>>
    /\ UNCHANGED <<apiVars, recVars, prefVars>>

\* DebugUtils.testAudioData and AudioUtils.blobToBase64 settle; then
\* ApiUtils.getApiStatus() is called
AudioConverted ==
    /\ handler = "converting"
    /\ \E converted \in BOOLEAN :
        IF converted
        THEN /\ handler' = "probing"
             /\ UNCHANGED <<storeVars, isProcessing, transcriptionSegments, lastHandled>>
        ELSE HandlerFails("conversion", NoResponse)
    /\ UNCHANGED <<midnightTimers, captures>>
    /\ UNCHANGED <<apiVars, recVars, prefVars>>

\* getApiStatus() settles: not connected throws 'Cannot connect to server',
\* otherwise ApiUtils.post('/api/transcribe', ...) is called
ApiStatusSettles ==
    /\ handler = "probing"
    /\ \E health \in HandlerOutcomes :
        IF getApiStatus(health).connected
        THEN /\ handler' = "posting"
             /\ UNCHANGED <<storeVars, isProcessing, transcriptionSegments, lastHandled>>
        ELSE HandlerFails("health", NoResponse)
    /\ UNCHANGED <<midnightTimers, captures>>
    /\ UNCHANGED <<apiVars, recVars, prefVars>>

\* the post settles: on response.success the new segment is appended to
\* Home's list and the list is stored (in the state updater and again by the
\* save effect), with a success toast; otherwise the catch block; then finally
PostSettles ==
    /\ handler = "posting"
    /\ \E response \in HandlerOutcomes, size \in SegmentSizes :
        IF Committable(response)
        THEN LET newSegment == [id |-> captures, bytes |-> size, timestamp |-> "D1"]
                 updatedSegments == Append(transcriptionSegments, newSegment)
             IN  /\ transcriptionSegments' = updatedSegments
                 /\ localStorage' = saveTranscripts(localStorage, updatedSegments)
                 /\ lastCall' = Call("saveTranscripts", localStorage[TRANSCRIPTS_KEY].value,
                                     updatedSegments, updatedSegments, TRUE)
                 /\ lastHandled' = [lastHandled EXCEPT !.result = "committed",
                                                       !.response = response,
                                                       !.successToasts = @ + 1,
                                                       !.commits = @ + 1]
                 /\ isProcessing' = FALSE
                 /\ handler' = "idle"
        ELSE HandlerFails(IF response.kind = "threw" THEN "transport" ELSE "success-false",
                          response)
    /\ UNCHANGED <<midnightTimers, captures>>
    /\ UNCHANGED <<apiVars, recVars, prefVars>>

\* Home.clearTranscript() (its button is disabled while processing)
ClearTranscript ==
    /\ started
    /\ ~isProcessing
    /\ Len(transcriptionSegments) > 0
    /\ transcriptionSegments' = <<>>
    /\ localStorage' = StorageRemove(localStorage, TRANSCRIPTS_KEY)
    /\ lastCall' = Call("clearTranscripts", localStorage[TRANSCRIPTS_KEY].value,
                        <<>>, <<>>, TRUE)
    /\ UNCHANGED <<midnightTimers, isProcessing, handler, captures, lastHandled>>
    /\ UNCHANGED <<apiVars, recVars, prefVars>>

\* the Home page: page load, captures handed over by the recorder, clearing
NextHome ==
    \/ AppStart
    \/ HandleRecordingComplete
    \/ AudioConverted
    \/ ApiStatusSettles
    \/ PostSettles
    \/ ClearTranscript
    \/ DayRollsOver

(***************************************************************************)
(* Claims about preferences and the daily bucket                           *)
(***************************************************************************)
\* the bucket stored under the daily key, and the preferences stored under the legacy key
StoredBucket(ls) == StorageGet(ls, STORAGE_KEY).value

StoredLegacy(ls) == StorageGet(ls, SETTINGS_KEY).value

\* C11: when the stored bucket is dated an earlier day and holds preferences
\* P, getCurrentData and the midnight reset return and persist a bucket dated
\* today, with no segments and with preferences equal to P.
C11_RotationCarriesPreferences ==
    [][ ( /\ GetCurrentData \/ MidnightReset
          /\ StorageGet(localStorage, STORAGE_KEY).found
          /\ StoredBucket(localStorage).date = EarlierDay
          /\ StoredBucket(localStorage).hasSettings
          /\ StoredBucket(localStorage).settings \in TypedSettings )
        => /\ lastPref'.bucket.date = Today
           /\ lastPref'.bucket.transcripts = <<>>
           /\ lastPref'.bucket.settings = StoredBucket(localStorage).settings
           /\ StoredBucket(localStorage') = lastPref'.bucket ]_vars

\* C12: after a getCurrentData (or StorageUtils.getSettings) call that
\* migrated a record lacking displayMode, a further call on the same date
\* returns the same value and leaves the stored bytes as they are.
C12_MigrationIdempotent ==
    [][ /\ ( /\ GetCurrentData
             /\ lastPref.op = "getCurrentData" /\ lastPref.migrated /\ lastPref.day = Today )
           => /\ localStorage' = localStorage
              /\ lastPref'.bucket = lastPref.bucket
        /\ ( /\ GetSettings
             /\ lastPref.op = "StorageUtils.getSettings" /\ lastPref.migrated )
           => /\ localStorage' = localStorage
              /\ lastPref'.settings = lastPref.settings ]_vars

\* C12 witness: a read that followed a migrating read of the same name, after
\* time had passed since the migration wrote
C12_Witness ==
    /\ lastPref.after = "migration"
    /\ lastPref.op \in {"getCurrentData", "StorageUtils.getSettings"}
    /\ localStorage[STORAGE_KEY].timestamp = EarlierInstant
    /\ localStorage[SETTINGS_KEY].timestamp = EarlierInstant

\* C13: getCurrentData right after saveData(b) on the same date returns a
\* bucket whose date, settings and transcripts equal those of b.
C13_SaveThenGetRoundTrip ==
    [][ ( /\ GetCurrentData
          /\ lastPref.op = "saveData" /\ lastPref.day = Today )
        => /\ lastPref'.bucket.date = lastPref.bucket.date
           /\ lastPref'.bucket.settings = lastPref.bucket.settings
           /\ lastPref'.bucket.transcripts = lastPref.bucket.transcripts ]_vars

\* the daily bucket and the legacy key hold the same preferences
MirrorConsistent(ls) ==
    /\ StorageGet(ls, STORAGE_KEY).found
    /\ StorageGet(ls, SETTINGS_KEY).found
    /\ StoredBucket(ls).hasSettings
    /\ StoredBucket(ls).settings = StoredLegacy(ls)

\* C14: after every preference write of the application, and after a day
\* rollover of a consistent store, the preferences in the daily bucket equal
\* those under the legacy key.
C14_LegacyMirrorConsistent ==
    [][ /\ ( /\ \/ SaveTheme
                \/ UpdateSettings
                \/ ResetSettings
                \/ SetFontSize
                \/ DisplayModeChange
             /\ ~lastPref'.threw )
           => MirrorConsistent(localStorage')
        /\ ( /\ GetCurrentData \/ MidnightReset
             /\ StoredBucket(localStorage).date = EarlierDay
             /\ MirrorConsistent(localStorage) )
           => MirrorConsistent(localStorage') ]_vars

\* stored content that is unparseable or not of the expected shape
CorruptBucket(ls) ==
    /\ ls[STORAGE_KEY].present
    /\ ls[STORAGE_KEY].shape = "unparseable" \/ ~ls[STORAGE_KEY].value.hasSettings

CorruptSettings(ls) ==
    /\ ls[SETTINGS_KEY].present
    /\ ls[SETTINGS_KEY].shape = "unparseable" \/ ls[SETTINGS_KEY].value = EmptyObject

CorruptTranscripts(ls) ==
    /\ ls[TRANSCRIPTS_KEY].present
    /\ ls[TRANSCRIPTS_KEY].shape # "ok"

\* C16: on corrupt stored data every read falls back to a safe default and
\* throws nothing: StorageUtils.get gives null for unparseable text,
\* StorageUtils.getSettings the default preferences, getCurrentData a fresh
\* default bucket that it persists, getTranscripts the empty sequence.
C16_CorruptReadsAsAbsent ==
    [][ /\ \A k \in StorageKeys :
              (localStorage[k].present /\ localStorage[k].shape = "unparseable")
                  => ~StorageGet(localStorage, k).found
        /\ (GetSettings /\ CorruptSettings(localStorage))
              => lastPref'.settings = getDefaultSettings
        /\ (GetCurrentData /\ CorruptBucket(localStorage))
              => /\ lastPref'.bucket = Bucket(Today, TRUE, getDefaultSettings, <<>>, Now)
                 /\ StoredBucket(localStorage') = lastPref'.bucket
        /\ (GetTranscripts /\ CorruptTranscripts(localStorage))
              => lastCall'.merged = <<>>
        /\ (GetSettings \/ GetCurrentData \/ ThemeGetSettings) => ~lastPref'.threw ]_vars

\* C17: every preferences record a read returns has a display mode, whatever
\* was stored; when the stored record lacked one, the read returns 'combined'
\* and has persisted the filled record.
C17_DisplayModeAlwaysSet ==
    [][ /\ GetSettings
              => /\ lastPref'.settings.displayMode # Undefined
                 /\ ( /\ StorageGet(localStorage, SETTINGS_KEY).found
                      /\ StoredLegacy(localStorage).displayMode = Undefined )
                    => /\ lastPref'.settings.displayMode = "combined"
                       /\ StoredLegacy(localStorage') = lastPref'.settings
        /\ GetCurrentData
              => /\ lastPref'.bucket.hasSettings
                 /\ lastPref'.bucket.settings.displayMode # Undefined
                 /\ StoredBucket(localStorage').settings = lastPref'.bucket.settings
        /\ ThemeGetSettings
              => /\ lastPref'.settings.displayMode # Undefined
                 /\ StoredBucket(localStorage').settings = lastPref'.settings ]_vars

\* C25: once the date has rolled over and the rotation runs (through
\* getCurrentData, the midnight reset or the page load), the segment sequence
\* getTranscripts restores is empty, and so is the list Home loads from it.
C25_SegmentsResetOnRollover ==
    [][ ( /\ GetCurrentData \/ MidnightReset \/ AppStart
          /\ StorageGet(localStorage, STORAGE_KEY).found
          /\ StoredBucket(localStorage).date = EarlierDay
          /\ localStorage[TRANSCRIPTS_KEY].shape = "ok" )
        => /\ getTranscripts(localStorage') = <<>>
           /\ AppStart => transcriptionSegments' = <<>> ]_vars

C27_GetUsageReadOnly ==
    [][ GetStorageInfo
          => /\ localStorage' = localStorage
             /\ lastPref'.bucket.date = Today ]_vars

\* C28: a preference write of one field leaves the other fields of the
\* persisted preferences (the legacy key every path writes) at the values
\* last written to them.
C28_NoLostPreferenceUpdate ==
    [][ StorageGet(localStorage, SETTINGS_KEY).found
          => /\ SetFontSize
                  => /\ StoredLegacy(localStorage').theme = StoredLegacy(localStorage).theme
                     /\ StoredLegacy(localStorage').displayMode
                            = StoredLegacy(localStorage).displayMode
             /\ DisplayModeChange
                  => /\ StoredLegacy(localStorage').theme = StoredLegacy(localStorage).theme
                     /\ StoredLegacy(localStorage').fontSize
                            = StoredLegacy(localStorage).fontSize
             /\ UpdateSettings
                  => /\ StoredLegacy(localStorage').fontSize
                            = StoredLegacy(localStorage).fontSize
                     /\ StoredLegacy(localStorage').displayMode
                            = StoredLegacy(localStorage).displayMode ]_vars

\* a step in which handleRecordingComplete finishes
HandlerFinishes ==
    /\ AudioConverted \/ ApiStatusSettles \/ PostSettles
    /\ handler' = "idle"

Init == InitStore /\ InitApi /\ InitRec /\ InitPrefs /\ InitHome

\* the transcript store alone
SpecStore == Init /\ [][NextStore]_vars

\* one ApiUtils.request call after another
SpecApi == Init /\ [][NextApi]_vars

\* the AudioRecorder component under user, platform and timer events
SpecRec == Init /\ [][NextRec]_vars

\* the program started over a substrate an earlier run left behind
InitLoaded == InitStored /\ InitApi /\ InitRec

\* preference reads and writes over such a substrate
SpecPrefs == InitLoaded /\ [][NextPrefs]_vars

\* the application's preference writes over such a substrate
SpecApp == InitLoaded /\ [][NextApp]_vars

\* the Home page's capture handler over such a substrate
SpecHome == InitLoaded /\ [][NextHome]_vars

====
